---- MODULE Spec2Model ----
(***************************************************************************)
(* structlog.threadlocal: context classes whose state is global but        *)
(* thread local (wrap_dict, _ThreadLocalDictWrapper) and the tmp_bind      *)
(* context manager.                                                        *)
(*                                                                         *)
(* A context class is identified by its position in dict_class (every      *)
(* wrap_dict call makes a new class object).  tl[c][t] is the slot         *)
(* c._tl.dict_ as seen by thread t.  A handle is an instance of a context  *)
(* class: it owns no data, only the bound methods that __getattr__ has     *)
(* stored on it by setattr; a bound method is identified by the thread     *)
(* whose mapping it is bound to.  Handles are plain objects, every thread  *)
(* may use every handle.                                                   *)
(*                                                                         *)
(* The logger is not part of this module: a logger in thread-local mode is *)
(* known by its context handle, and logger.bind with keywords kw           *)
(* constructs context_class from logger._context and kw.                   *)
(***************************************************************************)
EXTENDS Integers, Sequences, FiniteSets, TLC

\* ---- bounds of the model -------------------------------------------------
MaxTypes == 2
MaxHandles == 3
MaxDepth == 2
MaxSteps == 4

\* ---- finite universes ----------------------------------------------------
Threads == {"A", "B"}
Keys == {"a", "b"}
Vals == {1, 2}
DictClasses == {"dict"}
Failures == {"KeyError", "RuntimeError"}
ForwardedNames == {"get", "pop", "copy", "update", "clear"}
\* a name the backing dict class does not have
UnknownNames == {"nope"}
NoThread == "none"
NoExc == "none"
PlainLogger == 0

\* ---- mappings (the behaviour of the backing dict class) -------------------
EmptyMap == [k \in {} |-> 0]
\* keyword arguments of a call: none or one
KwArgs == {EmptyMap} \cup {[x \in {k} |-> v] : k \in Keys, v \in Vals}

DictUpdate(m, n) ==
    [k \in (DOMAIN m) \cup (DOMAIN n) |-> IF k \in DOMAIN n THEN n[k] ELSE m[k]]
DictSetItem(m, k, v) ==
    [x \in (DOMAIN m) \cup {k} |-> IF x = k THEN v ELSE m[x]]
DictPop(m, k) ==
    [x \in (DOMAIN m) \ {k} |-> m[x]]
DictClear(m) ==
    EmptyMap

\* the result of calling the mapping's method `name` on mapping m
DictCall(m, name, k, kw) ==
    CASE name = "get"    -> [map |-> m, exc |-> NoExc,
                             ret |-> IF k \in DOMAIN m THEN {m[k]} ELSE {}]
      [] name = "copy"   -> [map |-> m, exc |-> NoExc, ret |-> {m}]
      [] name = "update" -> [map |-> DictUpdate(m, kw), exc |-> NoExc, ret |-> {}]
      [] name = "pop"    -> IF k \in DOMAIN m
                            THEN [map |-> DictPop(m, k), exc |-> NoExc, ret |-> {m[k]}]
                            ELSE [map |-> m, exc |-> "KeyError", ret |-> {}]
      [] name = "clear"  -> [map |-> DictClear(m), exc |-> NoExc, ret |-> {}]

\* ---- state ----------------------------------------------------------------
\* dict_class[c]  the backing class given to the c-th wrap_dict call
\* tl[c][t]       the slot c._tl.dict_ of thread t (made = the attribute exists;
\*                created = how many mapping objects were ever stored in it)
\* handles[h]     an instance: its class and the bound methods stored on it
\* scopes[t]      the tmp_bind generators suspended at their yield on thread t
\* lastOp         the last call and what its caller got back (note = "handle"
\*                for a constructor given an instance of its own class, "nested"
\*                for a scope left after a scope inside its block had ended;
\*                kw = the keyword arguments a constructor was given)
\* steps          number of calls made since the initial state
VARIABLES dict_class, tl, handles, scopes, lastOp, steps
vars == <<dict_class, tl, handles, scopes, lastOp, steps>>

NoDict == [made |-> FALSE, map |-> EmptyMap, created |-> 0]
NoCache == [n \in ForwardedNames |-> NoThread]
NoArgs == [kind |-> "none", h |-> 0, map |-> EmptyMap]
NoKey == "-"

NoNote == "-"

Op(op, t, c, exc, ret, before) ==
    [op |-> op, thread |-> t, cls |-> c, exc |-> exc, ret |-> ret, before |-> before,
     note |-> NoNote, kw |-> EmptyMap]

Init ==
    /\ dict_class = <<>>
    /\ tl = <<>>
    /\ handles = <<>>
    /\ scopes = [t \in Threads |-> <<>>]
    /\ steps = 0
    /\ lastOp = Op("import", "A", 0, NoExc, {}, EmptyMap)

\* every operation is one more call made by the application
Tick ==
    /\ steps < MaxSteps
    /\ steps' = steps + 1

\* ---- wrap_dict --------------------------------------------------------------
wrap_dict(t, dc) ==
    /\ Tick
    /\ Len(dict_class) < MaxTypes
    /\ dict_class' = Append(dict_class, dc)
    /\ tl' = Append(tl, [u \in Threads |-> NoDict])
    /\ lastOp' = Op("wrap_dict", t, Len(dict_class) + 1, NoExc, {}, EmptyMap)
    /\ UNCHANGED <<handles, scopes>>

\* ---- _ThreadLocalDictWrapper ------------------------------------------------
\* faulty variant of property_dict: every access stores a new mapping
property_dict_renew(tls, c, t) ==
    [tls EXCEPT ![c][t] = [made |-> TRUE, map |-> EmptyMap,
                           created |-> tls[c][t].created + 1]]

\* the property _dict evaluated on thread t for class c: the slots afterwards
property_dict(tls, c, t) ==
    IF tls[c][t].made THEN tls
    ELSE [tls EXCEPT ![c][t] = [made |-> TRUE, map |-> EmptyMap,
                                created |-> tls[c][t].created + 1]]

\* faulty variant of init_args: the constructor replaces the content by its arguments
init_args_reset(tls, hs, c, t, args, kw) ==
    LET d == property_dict(tls, c, t) IN
    IF args.kind = "handle" /\ hs[args.h].cls = c
    THEN [d EXCEPT ![c][t].map = DictUpdate(@, kw)]
    ELSE [d EXCEPT ![c][t].map = DictUpdate(args.map, kw)]

\* faulty variant of init_args: given an instance of its own class, the constructor
\* ignores the keyword arguments as well
init_args_drop_kw(tls, hs, c, t, args, kw) ==
    LET d == property_dict(tls, c, t) IN
    IF args.kind = "handle" /\ hs[args.h].cls = c
    THEN d
    ELSE [d EXCEPT ![c][t].map = DictUpdate(DictUpdate(@, args.map), kw)]

\* faulty variant of init_args: given an instance of its own class, the constructor
\* seeds the mapping with what the instance's copy method returns
init_args_seed_handle(tls, hs, c, t, args, kw) ==
    LET d == property_dict(tls, c, t) IN
    IF args.kind = "handle" /\ hs[args.h].cls = c
    THEN LET u == IF hs[args.h].cache["copy"] = NoThread THEN t
                  ELSE hs[args.h].cache["copy"] IN
         [d EXCEPT ![c][t].map = DictUpdate(DictUpdate(@, d[c][u].map), kw)]
    ELSE [d EXCEPT ![c][t].map = DictUpdate(DictUpdate(@, args.map), kw)]

\* __init__(self, *args, **kw) on thread t: the slots afterwards
init_args(tls, hs, c, t, args, kw) ==
    LET d == property_dict(tls, c, t) IN
    IF args.kind = "handle" /\ hs[args.h].cls = c
    THEN [d EXCEPT ![c][t].map = DictUpdate(@, kw)]
    ELSE [d EXCEPT ![c][t].map = DictUpdate(DictUpdate(@, args.map), kw)]

\* faulty variant of eq: object identity, as if __eq__ were not defined
eq_identity(hs, h1, h2) ==
    h1 = h2

\* faulty variant of eq: compares the wrapped dict classes
eq_dict_class(hs, h1, h2) ==
    dict_class[hs[h1].cls] = dict_class[hs[h2].cls]

\* self.__class__ == other.__class__
eq(hs, h1, h2) ==
    hs[h1].cls = hs[h2].cls

ne(hs, h1, h2) ==
    ~eq(hs, h1, h2)

\* the lookup h.name on thread t: an attribute stored on the instance is
\* found by the ordinary lookup; otherwise __getattr__ runs, fetches the
\* bound method of the calling thread's mapping and stores it on the instance
getattr_name(tls, hs, h, t, name) ==
    IF hs[h].cache[name] # NoThread
    THEN [tl |-> tls, handles |-> hs, target |-> hs[h].cache[name]]
    ELSE [tl |-> property_dict(tls, hs[h].cls, t),
          handles |-> [hs EXCEPT ![h].cache[name] = t],
          target |-> t]

\* faulty variant of getattr_unknown: the lookup on the mapping has a default,
\* getattr(self._dict, name, None), so the caller gets None and no failure
getattr_unknown_default(tls, hs, h, t, name) ==
    [tl |-> property_dict(tls, hs[h].cls, t), handles |-> hs, exc |-> NoExc]

\* the lookup h.name on thread t for a name the mapping does not have:
\* __getattr__ evaluates self._dict, getattr on the mapping raises
\* AttributeError and the setattr is not reached
getattr_unknown(tls, hs, h, t, name) ==
    [tl |-> property_dict(tls, hs[h].cls, t), handles |-> hs, exc |-> "AttributeError"]

\* the positional arguments a constructor call of class c may be given:
\* none, a mapping of one key, or an instance of class c
PosArgs(c) ==
    {NoArgs}
    \cup {[kind |-> "map", h |-> 0, map |-> [x \in {k} |-> 1]] : k \in Keys}
    \cup {[kind |-> "handle", h |-> h, map |-> EmptyMap] :
             h \in {x \in DOMAIN handles : handles[x].cls = c}}

\* the calls of forwarded methods the application makes
Calls ==
    {[name |-> n, k |-> k, kw |-> EmptyMap] : n \in {"get", "pop"}, k \in Keys}
    \cup {[name |-> n, k |-> NoKey, kw |-> EmptyMap] : n \in {"copy", "clear"}}
    \cup {[name |-> "update", k |-> NoKey, kw |-> kw] : kw \in KwArgs}

Construct(t, c, args, kw) ==
    /\ Tick
    /\ Len(handles) < MaxHandles
    /\ tl' = init_args(tl, handles, c, t, args, kw)
    /\ handles' = Append(handles, [cls |-> c, cache |-> NoCache])
    /\ lastOp' = [Op("__init__", t, c, NoExc, {}, tl[c][t].map) EXCEPT
                     !.note = IF args.kind = "handle" THEN "handle" ELSE NoNote,
                     !.kw = kw]
    /\ UNCHANGED <<dict_class, scopes>>

SetItem(t, h, k, v) ==
    LET c == handles[h].cls
        d == property_dict(tl, c, t) IN
    /\ Tick
    /\ tl' = [d EXCEPT ![c][t].map = DictSetItem(@, k, v)]
    /\ lastOp' = Op("__setitem__", t, c, NoExc, {}, EmptyMap)
    /\ UNCHANGED <<dict_class, handles, scopes>>

Iter(t, h) ==
    LET c == handles[h].cls
        d == property_dict(tl, c, t) IN
    /\ Tick
    /\ tl' = d
    /\ lastOp' = Op("__iter__", t, c, NoExc, {DOMAIN d[c][t].map}, EmptyMap)
    /\ UNCHANGED <<dict_class, handles, scopes>>

Length(t, h) ==
    LET c == handles[h].cls
        d == property_dict(tl, c, t) IN
    /\ Tick
    /\ tl' = d
    /\ lastOp' = Op("__len__", t, c, NoExc,
                    {Cardinality(DOMAIN d[c][t].map)}, EmptyMap)
    /\ UNCHANGED <<dict_class, handles, scopes>>

\* h.name(...) on thread t: the lookup, then the call of the bound method
Forward(t, h, call) ==
    LET c == handles[h].cls
        g == getattr_name(tl, handles, h, t, call.name)
        r == DictCall(g.tl[c][g.target].map, call.name, call.k, call.kw) IN
    /\ Tick
    /\ tl' = [g.tl EXCEPT ![c][g.target].map = r.map]
    /\ handles' = g.handles
    /\ lastOp' = Op(call.name, t, c, r.exc, r.ret, EmptyMap)
    /\ UNCHANGED <<dict_class, scopes>>

\* h.name on thread t, name unknown to the mapping
LookupUnknown(t, h, name) ==
    LET c == handles[h].cls
        g == getattr_unknown(tl, handles, h, t, name) IN
    /\ Tick
    /\ tl' = g.tl
    /\ handles' = g.handles
    /\ lastOp' = Op(name, t, c, g.exc, {}, tl[c][t].map)
    /\ UNCHANGED <<dict_class, scopes>>

\* ---- the logger ---------------------------------------------------------------
\* A logger in thread-local mode is known by its context handle; PlainLogger
\* is a logger whose context class is an ordinary dict.
Loggers == (DOMAIN handles) \cup {PlainLogger}

\* issubclass(logger._current_context_class, _ThreadLocalDictWrapper)
IsThreadLocal(l) ==
    l # PlainLogger

\* logger.bind(**values): a logger around context_class(logger._context, **values)
bind(tls, hs, l, t, values) ==
    [tl |-> init_args(tls, hs, hs[l].cls, t,
                      [kind |-> "handle", h |-> l, map |-> EmptyMap], values),
     handles |-> Append(hs, [cls |-> hs[l].cls, cache |-> NoCache])]

\* ---- tmp_bind -----------------------------------------------------------------
\* faulty variant of release: the clear() is missing
release_no_clear(m, saved) ==
    DictUpdate(m, saved)

\* _tl.dict_.clear(); _tl.dict_.update(saved)
release(m, saved) ==
    DictUpdate(DictClear(m), saved)

\* faulty variant of yield_throw: the yield sits in a try/except that swallows f
yield_throw_swallow(f) ==
    [exc |-> NoExc, released |-> TRUE]

\* the generator is resumed at its yield by an exception f of the block: the
\* exception that leaves the generator, and whether the lines after the yield ran
yield_throw(f) ==
    [exc |-> f, released |-> FALSE]

\* the context class is not a wrapped one: raise ValueError
tmp_bind_raise(t) ==
    /\ lastOp' = Op("tmp_bind", t, 0, "ValueError", {}, EmptyMap)
    /\ UNCHANGED <<dict_class, tl, handles, scopes>>

\* faulty variant of tmp_bind_enter: saved is a module-level name, so entering a
\* scope overwrites the snapshot of the scopes already open on the thread
tmp_bind_enter_global_saved(t, l, tmp_values) ==
    LET c == handles[l].cls
        g == getattr_name(tl, handles, l, t, "copy")
        saved == g.tl[c][g.target].map
        b == bind(g.tl, g.handles, l, t, tmp_values) IN
    /\ Len(scopes[t]) < MaxDepth
    /\ Len(handles) < MaxHandles
    /\ tl' = b.tl
    /\ handles' = b.handles
    /\ scopes' = [scopes EXCEPT ![t] =
           Append([i \in DOMAIN @ |-> [@[i] EXCEPT !.saved = saved]],
                  [logger |-> l, cls |-> c, saved |-> saved,
                   tmp |-> Len(b.handles),
                   pre |-> tl[c][t].map, foreign |-> g.target # t,
                   inner |-> 0])]
    /\ lastOp' = Op("tmp_bind", t, c, NoExc, {}, tl[c][t].map)
    /\ UNCHANGED dict_class

\* saved = logger._context.copy(); tmp_logger = logger.bind(**tmp_values); yield
\* (pre, foreign and inner are history: the calling thread's content at entry,
\* whether the copy method found on the handle belongs to another thread, and
\* how many scopes opened inside the block have ended normally)
tmp_bind_enter(t, l, tmp_values) ==
    LET c == handles[l].cls
        g == getattr_name(tl, handles, l, t, "copy")
        saved == g.tl[c][g.target].map
        b == bind(g.tl, g.handles, l, t, tmp_values) IN
    /\ Len(scopes[t]) < MaxDepth
    /\ Len(handles) < MaxHandles
    /\ tl' = b.tl
    /\ handles' = b.handles
    /\ scopes' = [scopes EXCEPT ![t] =
           Append(@, [logger |-> l, cls |-> c, saved |-> saved,
                      tmp |-> Len(b.handles),
                      pre |-> tl[c][t].map, foreign |-> g.target # t,
                      inner |-> 0])]
    /\ lastOp' = Op("tmp_bind", t, c, NoExc, {}, tl[c][t].map)
    /\ UNCHANGED dict_class

\* faulty variant of tmp_bind: the check of the context class is missing
tmp_bind_unchecked(t, l, tmp_values) ==
    /\ Tick
    /\ IF IsThreadLocal(l)
       THEN tmp_bind_enter(t, l, tmp_values)
       ELSE /\ Len(scopes[t]) < MaxDepth
            /\ scopes' = [scopes EXCEPT ![t] =
                   Append(@, [logger |-> l, cls |-> 0, saved |-> EmptyMap,
                              tmp |-> l, pre |-> EmptyMap, foreign |-> FALSE,
                              inner |-> 0])]
            /\ lastOp' = Op("tmp_bind", t, 0, NoExc, {}, EmptyMap)
            /\ UNCHANGED <<dict_class, tl, handles>>

\* with tmp_bind(logger, **tmp_values) on thread t, up to the yield
tmp_bind(t, l, tmp_values) ==
    /\ Tick
    /\ IF ~IsThreadLocal(l)
       THEN tmp_bind_raise(t)
       ELSE tmp_bind_enter(t, l, tmp_values)

Top(t) == scopes[t][Len(scopes[t])]
Pop(t) == [scopes EXCEPT ![t] = SubSeq(@, 1, Len(@) - 1)]
\* the generator ran to its end: the scope around it, if any, has one more
\* scope ended inside its block
PopEnded(t) ==
    LET n == Len(scopes[t]) - 1 IN
    [scopes EXCEPT ![t] =
        [i \in 1..n |->
            IF i = n THEN [scopes[t][i] EXCEPT !.inner = scopes[t][i].inner + 1]
            ELSE scopes[t][i]]]

\* faulty variant of tmp_bind_exit: _tl is an ordinary object shared by all
\* threads, so the release refills the mapping every thread sees
tmp_bind_exit_shared(t) ==
    /\ Tick
    /\ scopes[t] # <<>>
    /\ IsThreadLocal(Top(t).logger)
    /\ LET c == Top(t).cls IN
       /\ tl' = [tl EXCEPT ![c] =
                    [u \in Threads |-> [tl[c][u] EXCEPT !.map = release(@, Top(t).saved)]]]
       /\ lastOp' = [Op("tmp_bind_exit", t, c, NoExc, {}, tl[c][t].map) EXCEPT
                        !.note = IF Top(t).inner > 0 THEN "nested" ELSE NoNote]
    /\ scopes' = PopEnded(t)
    /\ UNCHANGED <<dict_class, handles>>

\* the block ends normally: the generator runs from the yield to its end
tmp_bind_exit(t) ==
    /\ Tick
    /\ scopes[t] # <<>>
    /\ IsThreadLocal(Top(t).logger)
    /\ LET c == Top(t).cls IN
       /\ tl' = [tl EXCEPT ![c][t].map = release(@, Top(t).saved)]
       /\ lastOp' = [Op("tmp_bind_exit", t, c, NoExc, {}, tl[c][t].map) EXCEPT
                        !.note = IF Top(t).inner > 0 THEN "nested" ELSE NoNote]
    /\ scopes' = PopEnded(t)
    /\ UNCHANGED <<dict_class, handles>>

\* the block raises f: contextlib throws f into the generator at the yield
tmp_bind_throw(t, f) ==
    /\ Tick
    /\ scopes[t] # <<>>
    /\ IsThreadLocal(Top(t).logger)
    /\ LET c == Top(t).cls
           y == yield_throw(f) IN
       /\ tl' = IF y.released
                THEN [tl EXCEPT ![c][t].map = release(@, Top(t).saved)]
                ELSE tl
       /\ lastOp' = Op("tmp_bind_throw", t, c, y.exc, {}, tl[c][t].map)
    /\ scopes' = Pop(t)
    /\ UNCHANGED <<dict_class, handles>>

Next ==
    \/ \E t \in Threads, dc \in DictClasses : wrap_dict(t, dc)
    \/ \E t \in Threads, c \in DOMAIN dict_class :
          \E args \in PosArgs(c), kw \in KwArgs : Construct(t, c, args, kw)
    \/ \E t \in Threads, h \in DOMAIN handles, k \in Keys, v \in Vals :
          SetItem(t, h, k, v)
    \/ \E t \in Threads, h \in DOMAIN handles : Iter(t, h)
    \/ \E t \in Threads, h \in DOMAIN handles : Length(t, h)
    \/ \E t \in Threads, h \in DOMAIN handles, call \in Calls : Forward(t, h, call)
    \/ \E t \in Threads, h \in DOMAIN handles, n \in UnknownNames :
          LookupUnknown(t, h, n)
    \/ \E t \in Threads, l \in Loggers, v \in KwArgs : tmp_bind(t, l, v)
    \/ \E t \in Threads : tmp_bind_exit(t)
    \/ \E t \in Threads, f \in Failures : tmp_bind_throw(t, f)

Spec == Init /\ [][Next]_vars

\* ---- nested scopes on one thread --------------------------------------------------
\* The state just inside the block of
\*     T = wrap_dict(dict); h = T(a=1); with tmp_bind(logger of h, **v):
\* on thread A, computed by the operators above.
InitNested ==
    /\ dict_class = <<"dict">>
    /\ steps = 0
    /\ \E v \in KwArgs :
          LET t == "A"
              tl0 == init_args(<<[u \in Threads |-> NoDict]>>, <<>>, 1, t,
                               NoArgs, [x \in {"a"} |-> 1])
              hs0 == <<[cls |-> 1, cache |-> NoCache]>>
              g == getattr_name(tl0, hs0, 1, t, "copy")
              b == bind(g.tl, g.handles, 1, t, v) IN
          /\ tl = b.tl
          /\ handles = b.handles
          /\ scopes = [u \in Threads |->
                 IF u = t
                 THEN <<[logger |-> 1, cls |-> 1, saved |-> g.tl[1][g.target].map,
                         tmp |-> Len(b.handles), pre |-> tl0[1][t].map,
                         foreign |-> g.target # t, inner |-> 0]>>
                 ELSE <<>>]
          /\ lastOp = Op("tmp_bind", t, 1, NoExc, {}, tl0[1][t].map)

\* what thread A does from inside the block: it binds, sets and removes values
\* and opens and leaves scopes
NextNested ==
    \/ \E c \in DOMAIN dict_class :
          \E args \in PosArgs(c), kw \in KwArgs : Construct("A", c, args, kw)
    \/ \E h \in DOMAIN handles, k \in Keys, v \in Vals : SetItem("A", h, k, v)
    \/ \E h \in DOMAIN handles, call \in {x \in Calls : x.name \in {"pop", "clear"}} :
          Forward("A", h, call)
    \/ \E l \in Loggers, v \in KwArgs : tmp_bind("A", l, v)
    \/ tmp_bind_exit("A")
    \/ \E f \in Failures : tmp_bind_throw("A", f)

SpecNested == InitNested /\ [][NextNested]_vars

\* ---- what a thread observes through a handle ------------------------------------
\* list(h) on thread t
IterView(h, t) ==
    DOMAIN property_dict(tl, handles[h].cls, t)[handles[h].cls][t].map

\* len(h) on thread t
LenView(h, t) ==
    Cardinality(IterView(h, t))

\* h.copy() on thread t
CopyView(h, t) ==
    LET g == getattr_name(tl, handles, h, t, "copy") IN
    DictCall(g.tl[handles[h].cls][g.target].map, "copy", NoKey, EmptyMap).ret

\* mapping m is mapping p updated first with seed, then with kw
IsUpdateOf(m, p, seed, kw) ==
    /\ DOMAIN m = (DOMAIN p) \cup (DOMAIN seed) \cup (DOMAIN kw)
    /\ \A k \in DOMAIN m :
          m[k] = IF k \in DOMAIN kw THEN kw[k]
                 ELSE IF k \in DOMAIN seed THEN seed[k] ELSE p[k]

\* ---- C1 ---------------------------------------------------------------------------
\* C1 (thread isolation): a call made on one thread leaves the mapping of every
\* context class on every other thread as it was, so a key written on thread A
\* is never seen on thread B.
ThreadIsolation ==
    [][\A c \in DOMAIN tl, u \in Threads :
          u # lastOp'.thread => tl'[c][u] = tl[c][u]]_vars

\* ---- C2 ---------------------------------------------------------------------------
\* C2 (same-thread sharing): on every thread, any two handles of one context
\* class report the same content by iteration, by length and by a forwarded read.
SameThreadSharing ==
    \A h1 \in DOMAIN handles, h2 \in DOMAIN handles, t \in Threads :
       (h1 # h2 /\ eq(handles, h1, h2)) =>
          /\ IterView(h1, t) = IterView(h2, t)
          /\ LenView(h1, t) = LenView(h2, t)
          /\ CopyView(h1, t) = CopyView(h2, t)
          /\ CopyView(h1, t) = {[k \in IterView(h2, t) |->
                  property_dict(tl, handles[h2].cls, t)[handles[h2].cls][t].map[k]]}

TmpBindRestoreOnFailure ==
    [][\A t \in Threads :
          (lastOp'.op = "tmp_bind_throw" /\ lastOp'.thread = t /\ ~Top(t).foreign)
             => tl'[Top(t).cls][t].map = Top(t).pre]_vars

\* ---- C5 ---------------------------------------------------------------------------
\* C5 (failure pass-through): the failure f raised by the block of a scope is the
\* failure the caller of the with statement gets.
FailurePassThrough ==
    [][lastOp'.op = "tmp_bind_throw" =>
          \A f \in Failures :
             tmp_bind_throw(lastOp'.thread, f) => lastOp'.exc = f]_vars

\* a scope with temporary values has just been left by a failure of its block
FailurePassThroughWitness ==
    /\ lastOp.op = "tmp_bind_throw"
    /\ lastOp.exc \in Failures
    /\ lastOp.before # EmptyMap

\* ---- C6 ---------------------------------------------------------------------------
\* C6 (precondition): tmp_bind with a logger whose context class is not a wrapped
\* one raises ValueError and changes no class, no mapping, no handle and no scope.
TmpBindPrecondition ==
    [][(lastOp'.op = "tmp_bind" /\ lastOp'.cls = 0) =>
          \A v \in KwArgs :
             tmp_bind(lastOp'.thread, PlainLogger, v) =>
                /\ lastOp'.exc = "ValueError"
                /\ UNCHANGED <<dict_class, tl, handles, scopes>>]_vars

\* tmp_bind has just refused a plain logger while a thread-local context with
\* content exists
TmpBindPreconditionWitness ==
    /\ lastOp.op = "tmp_bind"
    /\ lastOp.exc = "ValueError"
    /\ \E c \in DOMAIN tl, t \in Threads : tl[c][t].map # EmptyMap

\* ---- C7 ---------------------------------------------------------------------------
\* C7 (construction updates): constructing an instance with a mapping or nothing
\* as positional argument, and keyword arguments, leaves the thread's mapping
\* equal to its prior content updated with the positional mapping and then with
\* the keyword arguments.
ConstructionUpdates ==
    [][(lastOp'.op = "__init__" /\ lastOp'.note = NoNote) =>
          LET t == lastOp'.thread
              c == lastOp'.cls
              kw == lastOp'.kw IN
          \A args \in {a \in PosArgs(c) : a.kind # "handle"} :
             Construct(t, c, args, kw)
                => IsUpdateOf(tl'[c][t].map, tl[c][t].map, args.map, kw)]_vars

\* an instance has just been constructed on a thread whose mapping had content,
\* and the mapping has one more key
ConstructionUpdatesWitness ==
    /\ lastOp.op = "__init__"
    /\ lastOp.before # EmptyMap
    /\ DOMAIN lastOp.before # DOMAIN tl[lastOp.cls][lastOp.thread].map
    /\ DOMAIN lastOp.before \subseteq DOMAIN tl[lastOp.cls][lastOp.thread].map

\* ---- C8 ---------------------------------------------------------------------------
\* C8 (independent context classes): a call on a handle or logger of one context
\* class changes the mapping of no other context class on any thread, and handles
\* of different context classes are never equal.
IndependentTypes ==
    [][/\ \A c \in DOMAIN tl : c # lastOp'.cls => tl'[c] = tl[c]
       /\ \A h1 \in DOMAIN handles', h2 \in DOMAIN handles' :
             handles'[h1].cls # handles'[h2].cls =>
                /\ ~eq(handles', h1, h2)
                /\ ne(handles', h1, h2)]_vars

\* two context classes wrap the same dict class, both have handles, the last call
\* was made on one of them and the other has content
IndependentTypesWitness ==
    \E c1 \in DOMAIN dict_class, c2 \in DOMAIN dict_class :
       /\ c1 # c2
       /\ dict_class[c1] = dict_class[c2]
       /\ lastOp.cls = c1
       /\ lastOp.op \in {"__init__", "__setitem__", "update", "tmp_bind"}
       /\ \E t \in Threads : tl[c1][t].map # EmptyMap
       /\ \E t \in Threads : tl[c2][t].map # EmptyMap
       /\ \E h1 \in DOMAIN handles, h2 \in DOMAIN handles :
             handles[h1].cls = c1 /\ handles[h2].cls = c2

\* ---- C9 ---------------------------------------------------------------------------
\* C9 (content inside the scope): at the yield of tmp_bind the yielded logger's
\* context is the calling thread's pre-scope content updated with the temporary
\* values.
ContentInsideScope ==
    [][(lastOp'.op = "tmp_bind" /\ lastOp'.exc = NoExc) =>
          \A l \in DOMAIN handles, v \in KwArgs :
             tmp_bind(lastOp'.thread, l, v)
                => LET t == lastOp'.thread
                       y == scopes'[t][Len(scopes'[t])].tmp IN
                   IsUpdateOf(tl'[handles'[y].cls][t].map,
                              tl[handles[l].cls][t].map, EmptyMap, v)]_vars

\* a scope has just been entered on a thread with content, and the temporary
\* values changed the content
ContentInsideScopeWitness ==
    /\ lastOp.op = "tmp_bind"
    /\ lastOp.exc = NoExc
    /\ lastOp.before # EmptyMap
    /\ lastOp.before # tl[lastOp.cls][lastOp.thread].map

\* ---- C10 --------------------------------------------------------------------------
\* C10 (forwarded operations): a forwarded method called through a handle on
\* thread t reads and writes thread t's mapping of the handle's class: the caller
\* gets what the method returns on that mapping and that mapping gets the change.
ForwardedOnCallingThread ==
    [][\A h \in DOMAIN handles, call \in {x \in Calls : x.name = lastOp'.op} :
          Forward(lastOp'.thread, h, call)
             => LET t == lastOp'.thread
                    c == handles[h].cls
                    r == DictCall(property_dict(tl, c, t)[c][t].map,
                                  call.name, call.k, call.kw) IN
                /\ tl'[c][t].map = r.map
                /\ lastOp'.ret = r.ret
                /\ lastOp'.exc = r.exc]_vars

\* ---- C11 --------------------------------------------------------------------------
\* C11 (tmp_bind touches only the calling thread): entering a scope and leaving
\* it, normally or by a failure, on one thread leaves the slot of every context
\* class on every other thread as it was.
TmpBindOtherThreads ==
    [][lastOp'.op \in {"tmp_bind", "tmp_bind_exit", "tmp_bind_throw"} =>
          \A c \in DOMAIN tl, u \in Threads \ {lastOp'.thread} :
             tl'[c][u] = tl[c][u]]_vars

\* a scope has just ended normally and changed the content of its thread, while
\* another thread holds content of the same context class
TmpBindOtherThreadsWitness ==
    /\ lastOp.op = "tmp_bind_exit"
    /\ lastOp.before # tl[lastOp.cls][lastOp.thread].map
    /\ \E u \in Threads \ {lastOp.thread} : tl[lastOp.cls][u].map # EmptyMap

\* ---- C12 --------------------------------------------------------------------------
\* C12 (equality is type identity): two handles are equal exactly when they are
\* of the same context class, != is the negation of ==, and == is reflexive,
\* symmetric and transitive; neither the content nor a thread enters into it.
EqualityIsTypeIdentity ==
    \A h1 \in DOMAIN handles, h2 \in DOMAIN handles :
       /\ eq(handles, h1, h2) <=> (handles[h1].cls = handles[h2].cls)
       /\ ne(handles, h1, h2) <=> ~eq(handles, h1, h2)
       /\ eq(handles, h1, h1)
       /\ eq(handles, h1, h2) => eq(handles, h2, h1)
       /\ \A h3 \in DOMAIN handles :
             (eq(handles, h1, h2) /\ eq(handles, h2, h3)) => eq(handles, h1, h3)

\* two distinct handles of one context class are equal while the two threads
\* hold different content for that class
EqualityIsTypeIdentityWitness ==
    \E h1 \in DOMAIN handles, h2 \in DOMAIN handles :
       /\ h1 # h2
       /\ eq(handles, h1, h2)
       /\ tl[handles[h1].cls]["A"].made
       /\ tl[handles[h1].cls]["B"].made
       /\ tl[handles[h1].cls]["A"].map # tl[handles[h1].cls]["B"].map

\* ---- C13 --------------------------------------------------------------------------
\* C13 (the snapshot is the calling thread's content): for every logger, the
\* content a scope holds for its release is the content the scope's own thread
\* had when the scope was entered.
SnapshotIsCallersContent ==
    \A t \in Threads : \A i \in DOMAIN scopes[t] :
       scopes[t][i].saved = scopes[t][i].pre

SameTypeArgument ==
    [][lastOp'.op = "__init__" =>
          LET t == lastOp'.thread
              c == lastOp'.cls
              kw == lastOp'.kw IN
          \A args \in {a \in PosArgs(c) :
                         a.kind = IF lastOp'.note = "handle" THEN "handle" ELSE "map"} :
             Construct(t, c, args, kw) =>
                IF args.kind = "handle"
                THEN /\ IsUpdateOf(tl'[c][t].map, tl[c][t].map, EmptyMap, kw)
                     /\ kw = EmptyMap => tl'[c][t].map = tl[c][t].map
                     /\ \A u \in Threads \ {t} : tl'[c][u] = tl[c][u]
                     /\ \A h \in DOMAIN handles : handles'[h] = handles[h]
                ELSE IsUpdateOf(tl'[c][t].map, tl[c][t].map, args.map, kw)]_vars

\* an instance has just been constructed from an instance of its own class and
\* keyword arguments, on a thread whose mapping had content and now has more
SameTypeArgumentWitness ==
    /\ lastOp.op = "__init__"
    /\ lastOp.note = "handle"
    /\ lastOp.before # EmptyMap
    /\ DOMAIN lastOp.before # DOMAIN tl[lastOp.cls][lastOp.thread].map

\* ---- C16 --------------------------------------------------------------------------
\* C16 (nested scopes unwind in LIFO order): on one thread, when a scope opened
\* inside the block of another ends normally the thread's content is the content
\* at the inner scope's entry, and when the outer scope then ends normally the
\* content is the content at the outer scope's entry.
NestedUnwind ==
    [][lastOp'.op = "tmp_bind_exit" =>
          LET t == lastOp'.thread IN
          /\ (Len(scopes[t]) >= 2 /\ ~Top(t).foreign)
                => tl'[Top(t).cls][t].map = Top(t).pre
          /\ (Len(scopes[t]) = 1 /\ Top(t).inner > 0 /\ ~Top(t).foreign)
                => tl'[Top(t).cls][t].map = Top(t).pre]_vars

\* the outer scope has just ended after a scope inside its block had ended, no
\* scope is open, and the release changed the content back to a non-empty one
NestedUnwindWitness ==
    /\ lastOp.op = "tmp_bind_exit"
    /\ lastOp.note = "nested"
    /\ scopes[lastOp.thread] = <<>>
    /\ tl[lastOp.cls][lastOp.thread].map # EmptyMap
    /\ lastOp.before # tl[lastOp.cls][lastOp.thread].map

\* ---- C17 --------------------------------------------------------------------------
\* C17 (unknown forwarded name): looking up through a handle a name the mapping
\* does not have fails with the mapping's AttributeError and leaves the content
\* of every mapping and what is stored on every handle as it was.
UnknownNameFails ==
    [][lastOp'.op \in UnknownNames =>
          \A h \in DOMAIN handles :
             LookupUnknown(lastOp'.thread, h, lastOp'.op) =>
                /\ lastOp'.exc = "AttributeError"
                /\ handles' = handles
                /\ DOMAIN tl' = DOMAIN tl
                /\ \A c \in DOMAIN tl, u \in Threads : tl'[c][u].map = tl[c][u].map]_vars

\* an unknown name has just been looked up through a handle that has forwarded
\* methods stored on it, on a thread whose mapping has content
UnknownNameFailsWitness ==
    /\ lastOp.op \in UnknownNames
    /\ lastOp.exc = "AttributeError"
    /\ lastOp.before # EmptyMap
    /\ tl[lastOp.cls][lastOp.thread].map = lastOp.before
    /\ \E h \in DOMAIN handles :
          handles[h].cls = lastOp.cls /\ handles[h].cache # NoCache
====
